---- MODULE Spec2Model ----
(***************************************************************************)
(* Request execution engine of the Algo SDK (sdk/python/algo_sdk).          *)
(*                                                                         *)
(* AlgoSDK.__init__ mounts an HTTPAdapter whose Retry policy is             *)
(*   Retry(total=max_retries, backoff_factor=1,                            *)
(*         status_forcelist=[429,500,502,503,504], method_whitelist=[..])  *)
(* and AlgoSDK._request issues one session.request() and maps the outcome  *)
(* onto the exception classes of exceptions.py.                            *)
(*                                                                         *)
(* The model follows one session.request() attempt by attempt.  What the   *)
(* adapter does with the Retry object configured in __init__ is the        *)
(* behaviour that configuration selects: every failed attempt consumes one *)
(* unit of `total`, a response whose status is in status_forcelist is      *)
(* retried while the budget lasts, and because raise_on_status is left at  *)
(* its default an exhausted budget surfaces as a RequestException          *)
(* (RetryError / ConnectionError), which _request catches at its except    *)
(* clause.  The model is of a client whose constructor returned (the       *)
(* method_whitelist keyword is accepted).  The 120 s cap on the backoff is *)
(* out of reach of the retry counts explored here and is left out.         *)
(***************************************************************************)
EXTENDS Integers, Sequences, FiniteSets, TLC

VARIABLES api_key, adapter, headers, server, op,
          pc, retries, outcomes, delays, sent, result

vars == <<api_key, adapter, headers, server, op,
          pc, retries, outcomes, delays, sent, result>>

config == <<api_key, adapter, headers, server, op>>

(* ---------------------------- bounds ---------------------------------- *)

\* largest max_retries a single caller is explored with
MaxRetriesBound == 2

\* largest max_retries two concurrent callers are explored with
MaxRetriesConc == 2

\* number of logical callers (threads) that may use the one client
NumCallers == 2

Callers == 1..NumCallers

(* ------------------------ values and helpers -------------------------- *)

\* Python's None for a decoded body / returned value
None == <<>>

\* Python's None for AlgoAPIError.status_code (status_code: int = None)
NoStatus == 0

\* api_key values: None, the empty string, a real key
NoKey == <<>>
ApiKeys == {NoKey, <<"">>, <<"secret">>}

\* the HTTP methods the resource APIs pass to _request
Methods == {"GET", "POST", "PUT", "DELETE"}

ErrBody == "{\"error\": \"rate limited\"}"
DataBody == "{\"data\": {\"id\": 1, \"name\": \"x\"}}"
HtmlBody == "<html>Bad Gateway</html>"

Resp(s, c, ra) == [kind |-> "response", status |-> s, content |-> c, retry_after |-> ra]
Fail(k) == [kind |-> k, status |-> 0, content |-> "", retry_after |-> 0]

\* outcomes of one attempt that the remote side can produce
Terminal ==
  { Resp(200, DataBody, 0), Resp(200, "", 0), Resp(200, HtmlBody, 0),
    Resp(400, ErrBody, 0), Resp(401, ErrBody, 0),
    Resp(403, ErrBody, 0), Resp(403, "", 0),
    Resp(404, ErrBody, 0), Resp(404, "", 0) }

Transient ==
  { Resp(429, ErrBody, 0), Resp(429, ErrBody, 3),
    Resp(500, ErrBody, 0), Resp(502, HtmlBody, 0),
    Resp(503, "", 0), Resp(504, "", 0), Resp(413, ErrBody, 3),
    Fail("connect_error"), Fail("read_error") }

AllOutcomes == Terminal \cup Transient

\* a smaller remote side for the runs with two concurrent callers
FewOutcomes ==
  { Resp(200, DataBody, 0), Resp(404, "", 0),
    Resp(500, ErrBody, 0), Fail("connect_error") }

(* ------------------------- AlgoSDK.__init__ --------------------------- *)

status_forcelist == {429, 500, 502, 503, 504}

method_whitelist_default == {"HEAD", "GET", "PUT", "DELETE", "OPTIONS", "TRACE"}

method_whitelist == {"HEAD", "GET", "OPTIONS", "POST", "PUT", "DELETE"}

backoff_factor == 1

\* Retry(total=max_retries, ...): the budget and the (empty) history
Retry(max_retries) == [total |-> max_retries, history |-> <<>>]

Bearer(key) == <<"Bearer ", key[1]>>

DefaultHeadersAlways(key) ==
  { <<"Content-Type", <<"application/json">>>>,
    <<"Authorization", IF key = NoKey THEN <<"Bearer ", "None">> ELSE Bearer(key)>> }

\* session.headers after the two update() calls; `if api_key:` is Python
\* truthiness, so None and "" both leave Authorization out
DefaultHeaders(key) ==
  { <<"Content-Type", <<"application/json">>>> }
    \cup (IF key # NoKey /\ key[1] # ""
          THEN { <<"Authorization", Bearer(key)>> }
          ELSE {})

NoResult ==
  [kind |-> "none", exc |-> "", text |-> "", cause |-> "", code |-> 0,
   status_code |-> NoStatus, response |-> None, value |-> None]

InitWith(keys, totals, active, srv, ops) ==
  /\ api_key \in keys
  /\ \E m \in totals : adapter = Retry(m)
  /\ headers = DefaultHeaders(api_key)
  /\ server = srv
  /\ op \in ops
  /\ pc = [c \in Callers |-> IF c \in active THEN "idle" ELSE "off"]
  /\ retries = [c \in Callers |-> Retry(0)]
  /\ outcomes = [c \in Callers |-> <<>>]
  /\ delays = [c \in Callers |-> <<>>]
  /\ sent = [c \in Callers |-> <<>>]
  /\ result = [c \in Callers |-> NoResult]

\* one caller, any method, the full remote side
Init ==
  InitWith(ApiKeys, 0..MaxRetriesBound, {1}, AllOutcomes,
           {[c \in Callers |-> m] : m \in Methods})

\* two callers sharing the client
InitConc ==
  InitWith({<<"secret">>}, 0..MaxRetriesConc, Callers, FewOutcomes,
           {[c \in Callers |-> IF c = 1 THEN "GET" ELSE "POST"]})

(* --------------- the Retry policy configured in __init__ -------------- *)

\* statuses that are retried only when the response carries Retry-After
RETRY_AFTER_STATUS_CODES == {413, 429, 503}

is_method_retryable(method) == method \in method_whitelist

\* is this attempt's response retried?  r is the caller's current Retry
is_retry(r, method, o) ==
  /\ is_method_retryable(method)
  /\ \/ o.status \in status_forcelist
     \/ /\ r.total # 0
        /\ o.retry_after # 0
        /\ o.status \in RETRY_AFTER_STATUS_CODES

\* every failed attempt takes one unit of the budget and is recorded
increment(r, o) == [total |-> r.total - 1, history |-> Append(r.history, o.status)]

is_exhausted_late(r) == r.total < 0 - 1

is_exhausted(r) == r.total < 0

get_backoff_time_shrinking(r) ==
  LET n == Len(r.history)
  IN  IF n > 3 THEN 0 ELSE backoff_factor * 2 ^ (3 - n)

\* backoff_factor * 2 ** (consecutive failures - 1), nothing after the first
get_backoff_time(r) ==
  LET n == Len(r.history)
  IN  IF n <= 1 THEN 0 ELSE backoff_factor * 2 ^ (n - 1)

\* the pause before the next attempt: a Retry-After header wins over backoff
sleep_time(r, o) ==
  IF o.kind = "response" /\ o.retry_after # 0
  THEN o.retry_after
  ELSE get_backoff_time(r)

StoreRetryShared(rs, c, new) == [d \in DOMAIN rs |-> new]

\* the Retry in use is a local of the running request; the adapter's object
\* is never written
StoreRetry(rs, c, new) == [rs EXCEPT ![c] = new]

(* ------------------------- AlgoSDK._request --------------------------- *)

\* response.json(): the decoded body, or a JSONDecodeError (which is a
\* RequestException in requests >= 2.27)
response_json(content) ==
  IF content = ErrBody THEN [ok |-> TRUE, value |-> <<"error", "rate limited">>]
  ELSE IF content = DataBody THEN [ok |-> TRUE, value |-> <<"data", "id=1", "name=x">>]
  ELSE [ok |-> FALSE, value |-> None]

Raise(exc, text, code, status, body) ==
  [kind |-> "raise", exc |-> exc, text |-> text, cause |-> "", code |-> code,
   status_code |-> status, response |-> body, value |-> None]

ReturnValue(v) ==
  [kind |-> "return", exc |-> "", text |-> "", cause |-> "", code |-> 0,
   status_code |-> NoStatus, response |-> None, value |-> v]

\* except requests.exceptions.RequestException as e:
\*     raise AlgoAPIError(f"Request failed: {str(e)}")
RequestFailed(cause, code) ==
  [kind |-> "raise", exc |-> "AlgoAPIError", text |-> "Request failed: ",
   cause |-> cause, code |-> code,
   status_code |-> NoStatus, response |-> None, value |-> None]

\* raise exc(text, status, response.json()): the argument is evaluated first
RaiseWithJson(exc, text, o) ==
  LET j == response_json(o.content)
  IN  IF j.ok THEN Raise(exc, text, 0, o.status, j.value)
      ELSE RequestFailed("JSONDecodeError", 0)

\* the body of the try block once session.request() has returned response o
request_response(o) ==
  IF o.status = 401 THEN RaiseWithJson("AlgoAuthError", "Authentication failed", o)
  ELSE IF o.status = 404 THEN RaiseWithJson("AlgoNotFoundError", "Resource not found", o)
  ELSE IF o.status = 400 THEN RaiseWithJson("AlgoValidationError", "Validation failed", o)
  ELSE IF o.status = 429 THEN RaiseWithJson("AlgoRateLimitError", "Rate limit exceeded", o)
  ELSE IF o.status >= 400 THEN
    IF o.content # ""
    THEN LET j == response_json(o.content)
         IN  IF j.ok THEN Raise("AlgoAPIError", "API error: ", o.status, o.status, j.value)
             ELSE RequestFailed("JSONDecodeError", 0)
    ELSE Raise("AlgoAPIError", "API error: ", o.status, o.status, None)
  ELSE IF o.content # ""
    THEN LET j == response_json(o.content)
         IN  IF j.ok THEN ReturnValue(j.value) ELSE RequestFailed("JSONDecodeError", 0)
    ELSE ReturnValue(None)

(* ------------------------------ actions ------------------------------- *)

\* a resource API enters _request: session.request() starts with the
\* adapter's Retry
Call(c) ==
  /\ pc[c] = "idle"
  /\ pc' = [pc EXCEPT ![c] = "running"]
  /\ retries' = StoreRetry(retries, c, adapter)
  /\ UNCHANGED <<config, outcomes, delays, sent, result>>

\* the attempt is put on the wire with the session's headers and its
\* outcome o is observed
Observe(c, o) ==
  /\ pc[c] = "running"
  /\ o \in server
  /\ sent' = [sent EXCEPT ![c] = Append(@, headers)]
  /\ outcomes' = [outcomes EXCEPT ![c] = Append(@, o)]

\* a response with a retried status, budget left: sleep and go again
RetryStatus(c, o) ==
  /\ Observe(c, o)
  /\ o.kind = "response"
  /\ is_retry(retries[c], op[c], o)
  /\ LET new == increment(retries[c], o)
     IN  /\ ~is_exhausted(new)
         /\ retries' = StoreRetry(retries, c, new)
         /\ delays' = [delays EXCEPT ![c] = Append(@, sleep_time(new, o))]
  /\ UNCHANGED <<config, pc, result>>

\* a response with a retried status, budget used up: RetryError, caught by
\* the except clause of _request
ExhaustStatus(c, o) ==
  /\ Observe(c, o)
  /\ o.kind = "response"
  /\ is_retry(retries[c], op[c], o)
  /\ is_exhausted(increment(retries[c], o))
  /\ result' = [result EXCEPT ![c] = RequestFailed("too many error responses", o.status)]
  /\ pc' = [pc EXCEPT ![c] = "done"]
  /\ UNCHANGED <<config, retries, delays>>

\* any other response reaches the status checks of _request
Respond(c, o) ==
  /\ Observe(c, o)
  /\ o.kind = "response"
  /\ ~is_retry(retries[c], op[c], o)
  /\ result' = [result EXCEPT ![c] = request_response(o)]
  /\ pc' = [pc EXCEPT ![c] = "done"]
  /\ UNCHANGED <<config, retries, delays>>

\* no response (connection failure or timeout), budget left
RetryError(c, o) ==
  /\ Observe(c, o)
  /\ o.kind # "response"
  /\ o.kind = "read_error" => is_method_retryable(op[c])
  /\ LET new == increment(retries[c], o)
     IN  /\ ~is_exhausted(new)
         /\ retries' = StoreRetry(retries, c, new)
         /\ delays' = [delays EXCEPT ![c] = Append(@, sleep_time(new, o))]
  /\ UNCHANGED <<config, pc, result>>

\* no response and nothing left (or a read failure of a method that is not
\* retried): ConnectionError / Timeout, caught by the except clause
ExhaustError(c, o) ==
  /\ Observe(c, o)
  /\ o.kind # "response"
  /\ \/ o.kind = "read_error" /\ ~is_method_retryable(op[c])
     \/ is_exhausted(increment(retries[c], o))
  /\ result' = [result EXCEPT ![c] = RequestFailed(o.kind, 0)]
  /\ pc' = [pc EXCEPT ![c] = "done"]
  /\ UNCHANGED <<config, retries, delays>>

\* the caller has taken the value or the exception; the call's state is gone
Return(c) ==
  /\ pc[c] = "done"
  /\ pc' = [pc EXCEPT ![c] = "idle"]
  /\ retries' = StoreRetry(retries, c, Retry(0))
  /\ outcomes' = [outcomes EXCEPT ![c] = <<>>]
  /\ delays' = [delays EXCEPT ![c] = <<>>]
  /\ sent' = [sent EXCEPT ![c] = <<>>]
  /\ result' = [result EXCEPT ![c] = NoResult]
  /\ UNCHANGED config

Attempt(c) ==
  \E o \in server :
    \/ RetryStatus(c, o)
    \/ ExhaustStatus(c, o)
    \/ Respond(c, o)
    \/ RetryError(c, o)
    \/ ExhaustError(c, o)

Next ==
  \E c \in Callers :
    \/ Call(c)
    \/ Attempt(c)
    \/ Return(c)

Spec == Init /\ [][Next]_vars

SpecConc == InitConc /\ [][Next]_vars

\* every attempt is bounded by the timeout and every sleep is finite, so a
\* call that is running takes its next step
FairSpec == Init /\ [][Next]_vars /\ \A c \in Callers : WF_vars(Attempt(c))

TypeOK ==
  /\ pc \in [Callers -> {"off", "idle", "running", "done"}]
  /\ \A c \in Callers : Len(sent[c]) = Len(outcomes[c])

(* ------------------- what one call does on its own -------------------- *)

\* _request run by a single caller on the first n outcomes of os, with no
\* other caller on the client
RECURSIVE RunAlone(_, _, _)
RunAlone(m, os, n) ==
  IF n = 0
  THEN [pc |-> "running", retries |-> adapter, delays |-> <<>>, result |-> NoResult]
  ELSE
    LET st == RunAlone(m, os, n - 1)
        o == os[n]
        new == increment(st.retries, o)
        again == [st EXCEPT !.retries = new,
                            !.delays = Append(st.delays, sleep_time(new, o))]
    IN  IF st.pc = "done" THEN st
        ELSE IF o.kind = "response"
        THEN IF is_retry(st.retries, m, o)
             THEN IF is_exhausted(new)
                  THEN [st EXCEPT !.pc = "done",
                                  !.result = RequestFailed("too many error responses", o.status)]
                  ELSE again
             ELSE [st EXCEPT !.pc = "done", !.result = request_response(o)]
        ELSE IF (o.kind = "read_error" /\ ~is_method_retryable(m)) \/ is_exhausted(new)
             THEN [st EXCEPT !.pc = "done", !.result = RequestFailed(o.kind, 0)]
             ELSE again

(* ---------------------- vocabulary of the claims ---------------------- *)

max_retries == adapter.total

Attempts(c) == Len(sent[c])

Last(c) == outcomes[c][Len(outcomes[c])]

IsStatus(o, s) == o.kind = "response" /\ o.status = s

\* the first j outcomes of the call are all responses with status s
AllStatus(c, j, s) == \A i \in 1..j : IsStatus(outcomes[c][i], s)

\* the error kind an exception stands for: the subclass, and for the base
\* class whether a status is attached
Kind(r) ==
  IF r.exc = "AlgoAuthError" THEN "AuthenticationFailed"
  ELSE IF r.exc = "AlgoNotFoundError" THEN "NotFound"
  ELSE IF r.exc = "AlgoValidationError" THEN "ValidationFailed"
  ELSE IF r.exc = "AlgoRateLimitError" THEN "RateLimited"
  ELSE IF r.status_code # NoStatus THEN "GenericApiError"
  ELSE "TransportFailure"

(* ------------------------------ claims -------------------------------- *)

C2_TerminalStatusNotRetried ==
  \A c \in Callers :
    (/\ Len(outcomes[c]) >= 1
     /\ outcomes[c][1].kind = "response"
     /\ outcomes[c][1].status >= 400
     /\ outcomes[c][1].status \notin {429, 500, 502, 503, 504})
    => /\ pc[c] = "done"
       /\ Attempts(c) = 1
       /\ result[c].kind = "raise"
       /\ outcomes[c][1].status = 404
            => /\ result[c].exc = "AlgoNotFoundError"
               /\ result[c].status_code = 404

\* C3: a call that receives status 503 on every attempt ends with an error
\* whose status_code is 503, after exactly max_retries + 1 attempts.
C3_Exhausted503 ==
  \A c \in Callers :
    (pc[c] = "done" /\ AllStatus(c, Len(outcomes[c]), 503))
    => /\ Attempts(c) = max_retries + 1
       /\ result[c].kind = "raise"
       /\ result[c].status_code = 503

\* C4: a call that receives status 429 with body {"error": "rate limited"}
\* on every attempt ends, once the retries are used up, with an
\* AlgoRateLimitError whose status_code is 429 and whose response is that body.
C4_Exhausted429 ==
  \A c \in Callers :
    (/\ pc[c] = "done"
     /\ AllStatus(c, Len(outcomes[c]), 429)
     /\ \A i \in 1..Len(outcomes[c]) : outcomes[c][i].content = ErrBody)
    => /\ result[c].kind = "raise"
       /\ result[c].exc = "AlgoRateLimitError"
       /\ result[c].status_code = 429
       /\ result[c].response = <<"error", "rate limited">>

\* C5: the kind of the error a call ends with is the one the first matching
\* row gives for its last outcome: no status -> TransportFailure, 401 ->
\* AuthenticationFailed, 404 -> NotFound, 400 -> ValidationFailed, 429 ->
\* RateLimited, any other status >= 400 -> GenericApiError; and a status in
\* [200, 400) gives no error.  Stated for the calls whose last outcome is a
\* transport failure or a response with a JSON body, where no decoding
\* failure can stand in the way of the mapping.
C5_KindByPrecedence ==
  \A c \in Callers :
    (pc[c] = "done" /\ Last(c).content \in {"", ErrBody, DataBody}
       /\ (Last(c).kind = "response" => Last(c).content # "")) =>
      LET o == Last(c)
          row == IF o.kind # "response" THEN "TransportFailure"
                 ELSE IF o.status = 401 THEN "AuthenticationFailed"
                 ELSE IF o.status = 404 THEN "NotFound"
                 ELSE IF o.status = 400 THEN "ValidationFailed"
                 ELSE IF o.status = 429 THEN "RateLimited"
                 ELSE IF o.status >= 400 THEN "GenericApiError"
                 ELSE "none"
      IN  IF row = "none"
          THEN result[c].kind = "return"
          ELSE result[c].kind = "raise" /\ Kind(result[c]) = row

\* C6: an error returned for an outcome in which a response was received
\* carries that response's status code, and its body when there is one,
\* for every status >= 400 and every body shape.
C6_ErrorCarriesStatusAndBody ==
  \A c \in Callers :
    (pc[c] = "done" /\ Last(c).kind = "response" /\ Last(c).status >= 400)
    => /\ result[c].kind = "raise"
       /\ result[c].status_code = Last(c).status
       /\ Last(c).content # "" => result[c].response # None

\* C7: no call retries for ever: a running call eventually returns, it makes
\* at most max_retries + 1 attempts, and when it stops because the limit is
\* reached the error it raises reports the failure of its last attempt.
C7_NoInfiniteRetry ==
  /\ [](\A c \in Callers :
          /\ Attempts(c) <= max_retries + 1
          /\ (/\ pc[c] = "done"
              /\ Attempts(c) = max_retries + 1
              /\ \/ Last(c).kind # "response"
                 \/ Last(c).status \in status_forcelist)
             => /\ result[c].kind = "raise"
                /\ IF Last(c).kind = "response"
                   THEN /\ result[c].cause = "too many error responses"
                        /\ result[c].code = Last(c).status
                   ELSE result[c].cause = Last(c).kind)
  /\ \A c \in Callers : (pc[c] = "running") ~> (pc[c] = "done")

C7_Witness ==
  \E c \in Callers :
    /\ pc[c] = "done"
    /\ max_retries = 2
    /\ Attempts(c) = 3
    /\ outcomes[c][1].kind = "connect_error"
    /\ IsStatus(outcomes[c][2], 502)
    /\ Last(c).kind = "read_error"
    /\ result[c].cause = "read_error"

\* C8: with api_key "secret" every attempt of every call, first or retried,
\* is sent with Authorization: Bearer secret; with no key no attempt has an
\* Authorization header; Content-Type: application/json is on every attempt.
C8_HeadersOnEveryAttempt ==
  \A c \in Callers :
    \A i \in 1..Len(sent[c]) :
      /\ <<"Content-Type", <<"application/json">>>> \in sent[c][i]
      /\ api_key = <<"secret">>
           => /\ <<"Authorization", <<"Bearer ", "secret">>>> \in sent[c][i]
              /\ \A h \in sent[c][i] :
                   h[1] = "Authorization" => h[2] = <<"Bearer ", "secret">>
      /\ api_key = NoKey
           => \A h \in sent[c][i] : h[1] # "Authorization"

C8_Witness ==
  \E c \in Callers :
    /\ api_key = <<"secret">>
    /\ Len(sent[c]) = 3
    /\ \A i \in 1..3 : <<"Authorization", <<"Bearer ", "secret">>>> \in sent[c][i]

\* C9 as claimed: within one call the delay between attempt i and attempt
\* i+1 is non-decreasing in i, for every sequence of retried outcomes.
C9_DelayNonDecreasing ==
  \A c \in Callers :
    \A i \in 1..(Len(delays[c]) - 1) : delays[c][i] <= delays[c][i + 1]

\* C9 as amended: within one call in which no retried response carries a
\* Retry-After header, the delay between attempt i and attempt i+1 is
\* non-decreasing in i.
C9_BackoffNonDecreasing ==
  \A c \in Callers :
    (\A j \in 1..Len(delays[c]) : outcomes[c][j].retry_after = 0)
    => \A i \in 1..(Len(delays[c]) - 1) : delays[c][i] <= delays[c][i + 1]

C9_Witness ==
  \E c \in Callers :
    /\ Len(delays[c]) = 2
    /\ \A j \in 1..2 : outcomes[c][j].retry_after = 0
    /\ delays[c][1] = 0
    /\ delays[c][2] = 2

\* C10: with several calls running on one client, under every interleaving
\* each call's progress, retry budget, delays and result are those of the
\* same call run alone on its own outcomes, and no step changes the client's
\* configuration or headers.
C10_CallsIndependent ==
  /\ [](\A c \in Callers :
          pc[c] \in {"running", "done"} =>
            LET alone == RunAlone(op[c], outcomes[c], Len(outcomes[c]))
            IN  /\ pc[c] = alone.pc
                /\ retries[c] = alone.retries
                /\ delays[c] = alone.delays
                /\ result[c] = alone.result
                /\ Attempts(c) = Len(outcomes[c]))
  /\ [][config' = config]_vars

C10_Witness ==
  /\ pc[1] = "done"
  /\ pc[2] = "running"
  /\ Len(outcomes[1]) = 2
  /\ result[1].kind = "raise"
  /\ Len(outcomes[2]) = 2
  /\ retries[2].total = max_retries - 2

====
